---- MODULE Spec2Model ----
(***************************************************************************)
(* Seat reservation and order finalization of the event-ticketing backend. *)
(*                                                                         *)
(* The durable store holds three collections (Event, StripeOrder, Booking).*)
(* Request handlers run concurrently; every `await` of a handler is a      *)
(* suspension point, so each action below is the code that runs between    *)
(* two awaits, together with the one store operation that the await waits  *)
(* for.  A store read followed by purely local code is one action.         *)
(*                                                                         *)
(* Mongoose semantics that the handlers rely on are modelled as they       *)
(* behave: findOneAndUpdate/findByIdAndUpdate are single atomic store      *)
(* operations, document.save() writes only the paths that were modified on *)
(* the in-memory document, and assigning a path its current value does not *)
(* mark it modified.                                                       *)
(*                                                                         *)
(* Failures: Booking.create fails when the ticketId is already used        *)
(* (unique index) or for another persistence reason; the order.save() that *)
(* sits in the same try block may fail too.  The store operations of the   *)
(* catch block itself are taken to succeed.  Failures of the webhook's own  *)
(* store operations are added in SpecFaults.                               *)
(*                                                                         *)
(* Beside the payment flow (Spec, SpecExpiry) the module has the checkout   *)
(* request (SpecCheckout), the routes that write the Event document         *)
(* (SpecAdmin), the manual booking route (SpecManual), and the payment flow *)
(* over orders of any stored quantity (SpecQuantity).                       *)
(* Concurrent bookSeats calls are in SpecBookSeats, the admin's update      *)
(* beside the atomic reservations in SpecAdminManual, orders that are never *)
(* paid in SpecAbandon, and the payment flow under fairness in SpecLive.    *)
(*                                                                         *)
(* Request handlers have no identity of their own: the requests in         *)
(* progress and the answered ones form a bag of handler records.           *)
(***************************************************************************)
EXTENDS Integers, Sequences, FiniteSets, Bags, TLC

\* ------------------------------------------------------------------ bounds
NumProcs   == 2     \* concurrent trigger invocations (poll / webhook requests)
MaxSeats   == 2     \* largest totalSeats of the event
NumTickets == 2     \* distinct values generateTicketId can produce

\* two StripeOrder documents: the relations stated below hold between the
\* invocations on one order or on two
OrderIds  == {1, 2}

\* Seat counts are written in halves of a seat, so that a number of seats that
\* is not an integer (1.5) can be written: one seat is Whole.
Whole     == 2
Seats(n)  == n * Whole
TicketIds == 1..NumTickets
Null      == 0      \* null ticketId / bookingId / unknown order or session
TheEvent  == "e1"   \* the one Event document the orders refer to

VARIABLES
    event,      \* the Event document: [totalSeats, bookedSeats]
    orders,     \* StripeOrder collection: order id -> document
    bookings,   \* Booking collection, in insertion order; _id = position
    handlers    \* bag of request handlers: position, locals, response

vars == <<event, orders, bookings, handlers>>

\* ------------------------------------------------------------ pure helpers

\* models/StripeOrder.js: the paths of an order that the payment flow writes
OrderDoc(q) ==
    [eventId |-> TheEvent, quantity |-> q, status |-> "PENDING",
     paymentStatus |-> "null", bookingId |-> Null, ticketId |-> Null]

\* const seats = Number(order.quantity || 0); if (!seats || seats < 1)
InvalidSeats(q) == q = 0 \/ q < Whole

\* Mutants of HasCapacity: the filter compares bookedSeats alone, or uses $lt.
HasCapacityWithoutSeats(ev, seats) == ev.bookedSeats <= ev.totalSeats

HasCapacityStrict(ev, seats) == ev.bookedSeats + seats < ev.totalSeats

\* Mutant of HasCapacity: seats are given out only while none is booked.
HasCapacityWhenIdle(ev, seats) == ev.bookedSeats = 0 /\ seats <= ev.totalSeats

\* $expr: { $lte: [{ $add: ['$bookedSeats', seats] }, '$totalSeats'] }
HasCapacity(ev, seats) == ev.bookedSeats + seats <= ev.totalSeats

\* { $inc: { bookedSeats: n } }
IncBookedSeats(ev, n) == [ev EXCEPT !.bookedSeats = @ + n]

\* Mutant of TicketTaken: the collection has no unique index on ticketId.
TicketTakenNever(t) == FALSE

\* Booking.create unique index on ticketId: a used ticketId is rejected
TicketTaken(t) == \E i \in 1..Len(bookings) : bookings[i].ticketId = t

\* Mutant of NewBooking: the Booking is written for one seat.
NewBookingSingleSeat(o, seats, t) ==
    [id |-> Len(bookings) + 1, event |-> orders[o].eventId, seats |-> Whole,
     ticketId |-> t, stripeSessionId |-> o]

\* Booking.create({... seats, ticketId, paymentStatus: 'PAID', stripeSessionId ...})
NewBooking(o, seats, t) ==
    [id |-> Len(bookings) + 1, event |-> orders[o].eventId, seats |-> seats,
     ticketId |-> t, stripeSessionId |-> o]

\* in-memory assignment order.<f> = v with mongoose's modified-path tracking
SetPath(l, f, v) ==
    [doc   |-> [l.doc EXCEPT ![f] = v],
     dirty |-> IF l.doc[f] = v THEN l.dirty ELSE l.dirty \cup {f}]

\* order.save(): $set of the modified paths only
SaveOrder(stored, l) ==
    [f \in DOMAIN stored |-> IF f \in l.dirty THEN l.doc[f] ELSE stored[f]]

\* order.status = 'FAILED'; order.paymentStatus = session?.payment_status || ...
MarkFailed(l) == SetPath(SetPath(l, "status", "FAILED"), "paymentStatus", "paid")

\* Mutant of MarkPaid: order.bookingId is not assigned.
MarkPaidWithoutBookingId(l, b, t) ==
    SetPath(SetPath(SetPath(l, "status", "PAID"), "paymentStatus", "paid"), "ticketId", t)

\* order.status = 'PAID'; ...; order.bookingId = booking._id; order.ticketId = ticketId
MarkPaid(l, b, t) ==
    SetPath(SetPath(SetPath(SetPath(l, "status", "PAID"),
        "paymentStatus", "paid"), "bookingId", b), "ticketId", t)


NoResp == [status |-> "", ticketId |-> Null]

NoFin == [status |-> "NONE", ticketId |-> Null, bookingId |-> Null, message |-> ""]

\* history: the handler has not written the order
NoSave == [status |-> "", ticketId |-> Null, bookingId |-> Null]

\* history: the handler has read no order
NotSeen == [status |-> "", ticketId |-> Null, bookingId |-> Null]

\* the handler holds no provider session
NoSession == [payment_status |-> "none", orderId |-> Null]

\* the handler is neither a checkout nor a manual booking request
NoRequest == [quantity |-> 0, fieldsOk |-> FALSE, known |-> FALSE, available |-> 0]

\* a request that has just arrived
NewHandler(kind) ==
    [pc |-> "start", kind |-> kind, ord |-> Null,
     req |-> NoRequest,         \* history: what a checkout or manual booking
                                \* request asked for, and the seats available
                                \* when it asked
     doc |-> OrderDoc(Whole), dirty |-> {}, booking |-> Null,
     session |-> NoSession,     \* the provider session the handler was given:
                                \* payment_status and metadata.orderId
     fin |-> NoFin, resp |-> NoResp,
     path |-> "none",   \* history: the branch finalizePaidOrder took
     delta |-> 0,       \* history: net change the handler made to bookedSeats
     made |-> 0,        \* history: Bookings the handler inserted
     dup |-> FALSE,     \* history: Booking.create rejected the handler's
                        \* ticketId as a duplicate
     seen |-> NotSeen,  \* history: the order as the handler read it
     left |-> NoSave]   \* history: the order as the handler's last save left it

\* Mutant of Respond: the webhook lets a failure of finalizePaidOrder through.
RespondPropagating(kind, fin) ==
    IF fin.status = "THROWN" THEN [status |-> "ERROR", ticketId |-> Null]
    ELSE IF kind = "webhook" THEN [status |-> "ACK", ticketId |-> Null]
    ELSE [status |-> fin.status, ticketId |-> fin.ticketId]

\* what the trigger sends back once finalizePaidOrder has returned or thrown
Respond(kind, fin) ==
    IF kind = "webhook" THEN [status |-> "ACK", ticketId |-> Null]
    ELSE IF fin.status = "THROWN" THEN [status |-> "ERROR", ticketId |-> Null]
    ELSE [status |-> fin.status, ticketId |-> fin.ticketId]

\* ------------------------------------------------------------------- Init
\* An order that an earlier finalizePaidOrder left FAILED for lack of seats
FailedOrderDoc(q) ==
    [OrderDoc(q) EXCEPT !.status = "FAILED", !.paymentStatus = "paid"]

\* No seat is booked and no request is in progress.  createCheckoutSession has
\* created the orders, each for at most the seats that were available; an
\* order is PENDING, or FAILED by an earlier finalization whose seats have
\* since been released.  Order ids are interchangeable, so the orders are
\* listed by quantity, PENDING before FAILED.
Init ==
    /\ \E t \in 1..MaxSeats : event = [totalSeats |-> Seats(t), bookedSeats |-> 0]
    /\ \E q \in [OrderIds -> {Seats(n) : n \in 1..MaxSeats}],
          f \in [OrderIds -> BOOLEAN] :
            /\ \A o \in OrderIds : q[o] <= event.totalSeats
            /\ \A o, n \in OrderIds :
                    o < n => q[o] < q[n] \/ (q[o] = q[n] /\ (f[o] => f[n]))
            /\ orders = [o \in OrderIds |->
                            IF f[o] THEN FailedOrderDoc(q[o]) ELSE OrderDoc(q[o])]
    /\ bookings = <<>>
    /\ handlers = EmptyBag

\* a request arrives while fewer than NumProcs have been taken up
CanStart == BagCardinality(handlers) < NumProcs

\* handler r is one of the requests taken up
Running(r) == BagIn(r, handlers)

\* the bag once handler r has moved on to r2
Step(r, r2) == (handlers (-) SetToBag({r})) (+) SetToBag({r2})

\* the handler has answered without calling finalizePaidOrder;
\* the handler's locals are gone
Answer(r, status, t) ==
    [r EXCEPT !.pc = "done", !.resp = [status |-> status, ticketId |-> t],
              !.ord = Null, !.doc = OrderDoc(Whole)]

\* finalizePaidOrder returns `fin` (or throws) and the trigger answers;
\* the handler's locals are gone
Finish(r, fin) ==
    [r EXCEPT !.pc = "done", !.fin = fin, !.resp = Respond(r.kind, fin),
              !.doc = OrderDoc(Whole), !.dirty = {}, !.booking = Null]

\* history: the paths of an order as a handler read them or as a save left them
Snapshot(d) == [status |-> d.status, ticketId |-> d.ticketId, bookingId |-> d.bookingId]

\* the handler read order o from the store
Load(r, o) ==
    [r EXCEPT !.ord = o, !.doc = orders[o],
              !.seen = Snapshot(orders[o])]

\* the handler holds the provider session: from stripe.checkout.sessions
\* .retrieve in the poll, from event.data.object in the webhook
WithSession(r, paymentStatus, o) ==
    [r EXCEPT !.session = [payment_status |-> paymentStatus, orderId |-> o]]

\* what order.save() of handler r leaves in the store
Saved(r) == SaveOrder(orders[r.ord], r)

Ready(t, b) == [status |-> "READY", ticketId |-> t, bookingId |-> b, message |-> ""]
Failed(m)   == [status |-> "FAILED", ticketId |-> Null, bookingId |-> Null, message |-> m]
Thrown      == [status |-> "THROWN", ticketId |-> Null, bookingId |-> Null, message |-> ""]

\* Mutant of FinalizeStart: the idempotency check is missing.
FinalizeStartWithoutShortCircuit(r) ==
    IF InvalidSeats(r.doc.quantity)
    THEN LET l == MarkFailed([doc |-> r.doc, dirty |-> r.dirty])
         IN [r EXCEPT !.pc = "saveFailed", !.path = "invalid",
                      !.doc = l.doc, !.dirty = l.dirty]
    ELSE [r EXCEPT !.pc = "reserve"]

\* finalizePaidOrder up to its first await, on the document the trigger loaded
FinalizeStart(r) ==
    IF r.doc.ticketId # Null /\ r.doc.bookingId # Null
    THEN Finish([r EXCEPT !.path = "short"], Ready(r.doc.ticketId, r.doc.bookingId))
    ELSE IF InvalidSeats(r.doc.quantity)
    THEN LET l == MarkFailed([doc |-> r.doc, dirty |-> r.dirty])
         IN [r EXCEPT !.pc = "saveFailed", !.path = "invalid",
                      !.doc = l.doc, !.dirty = l.dirty]
    ELSE [r EXCEPT !.pc = "reserve"]

\* --------------------------------------------------------------- triggers

\* getStripeResultBySession up to stripe.checkout.sessions.retrieve
PollLookup(s) ==
    /\ CanStart
    /\ LET r == NewHandler("poll")
       IN handlers' = handlers (+) SetToBag({
            IF s = Null
            THEN Answer(r, "NOT_FOUND", Null)
            ELSE IF orders[s].ticketId # Null
            THEN Answer(Load(r, s), "READY", orders[s].ticketId)
            ELSE IF orders[s].status \in {"FAILED", "EXPIRED", "CANCELLED"}
            THEN Answer(Load(r, s), orders[s].status, Null)
            ELSE [Load(r, s) EXCEPT !.pc = "retrieve"]})
    /\ UNCHANGED <<event, orders, bookings>>

\* Mutant of PollRetrieve: finalizePaidOrder is called whatever the provider
\* reports.
PollRetrieveAlwaysFinalize(r, answer) ==
    /\ Running(r)
    /\ r.pc = "retrieve"
    /\ handlers' = Step(r,
            IF answer = "error" THEN Answer(r, "ERROR", Null)
            ELSE FinalizeStart(WithSession(r, answer, r.ord)))
    /\ UNCHANGED <<event, orders, bookings>>

\* Mutant of PollRetrieve: a failed lookup at the provider is taken for a paid
\* session.
PollRetrieveErrorFinalizes(r, answer) ==
    /\ Running(r)
    /\ r.pc = "retrieve"
    /\ handlers' = Step(r,
            IF answer = "error" THEN FinalizeStart(r)
            ELSE IF answer # "paid"
            THEN Answer(WithSession(r, answer, r.ord), "PENDING", Null)
            ELSE FinalizeStart(WithSession(r, answer, r.ord)))
    /\ UNCHANGED <<event, orders, bookings>>

\* the provider's answer to the poll, then the call of finalizePaidOrder
PollRetrieve(r, answer) ==
    /\ Running(r)
    /\ r.pc = "retrieve"
    /\ handlers' = Step(r,
            IF answer = "error" THEN Answer(r, "ERROR", Null)
            ELSE IF answer # "paid"
            THEN Answer(WithSession(r, answer, r.ord), "PENDING", Null)
            ELSE FinalizeStart(WithSession(r, answer, r.ord)))
    /\ UNCHANGED <<event, orders, bookings>>

\* Mutant of WebhookBadSignature: the unverified request is acknowledged.
WebhookBadSignatureAcknowledged ==
    /\ CanStart
    /\ handlers' = handlers (+)
            SetToBag({Answer(NewHandler("webhook"), "ACK", Null)})
    /\ UNCHANGED <<event, orders, bookings>>

\* stripeWebhook: constructEvent throws
WebhookBadSignature ==
    /\ CanStart
    /\ handlers' = handlers (+)
            SetToBag({Answer(NewHandler("webhook"), "SIGNATURE_ERROR", Null)})
    /\ UNCHANGED <<event, orders, bookings>>

\* Mutant of WebhookCompleted: payment_status is not looked at.
WebhookCompletedIgnoringPayment(o, paymentStatus) ==
    /\ CanStart
    /\ LET r == WithSession(NewHandler("webhook"), paymentStatus, o)
       IN handlers' = handlers (+) SetToBag({
            IF o = Null
            THEN Answer(r, "ACK", Null)
            ELSE IF /\ orders[o].status = "PAID"
                    /\ orders[o].bookingId # Null
                    /\ orders[o].ticketId # Null
            THEN Answer(Load(r, o), "ACK", Null)
            ELSE FinalizeStart(Load(r, o))})
    /\ UNCHANGED <<event, orders, bookings>>

\* stripeWebhook, checkout.session.completed, up to finalizePaidOrder's first await
WebhookCompleted(o, paymentStatus) ==
    /\ CanStart
    /\ LET r == WithSession(NewHandler("webhook"), paymentStatus, o)
       IN handlers' = handlers (+) SetToBag({
            IF o = Null
            THEN Answer(r, "ACK", Null)
            ELSE IF /\ orders[o].status = "PAID"
                    /\ orders[o].bookingId # Null
                    /\ orders[o].ticketId # Null
            THEN Answer(Load(r, o), "ACK", Null)
            ELSE IF paymentStatus = "paid"
            THEN FinalizeStart(Load(r, o))
            ELSE Answer(Load(r, o), "ACK", Null)})
    /\ UNCHANGED <<event, orders, bookings>>

\* ------------------------------------------------------ finalizePaidOrder

\* Mutant of TryReserve: the update carries no capacity filter.
TryReserveUnconditional(ev, seats) == IncBookedSeats(ev, seats)

\* Event.findOneAndUpdate({_id, $expr: ...}, {$inc: {bookedSeats: seats}})
TryReserve(ev, seats) ==
    IF HasCapacity(ev, seats) THEN IncBookedSeats(ev, seats) ELSE ev

\* Event.findByIdAndUpdate(order.eventId, { $inc: { bookedSeats: -seats } })
Release(ev, seats) == IncBookedSeats(ev, -seats)

\* Mutant of Reserve: `if (!updatedEvent)` is missing; the invocation goes on
\* to the Booking whether or not the update matched.
ReserveIgnoringResult(r) ==
    /\ Running(r)
    /\ r.pc = "reserve"
    /\ event' = TryReserve(event, r.doc.quantity)
    /\ handlers' = Step(r,
            [r EXCEPT !.pc = "createBooking",
                      !.delta = @ + event'.bookedSeats - event.bookedSeats])
    /\ UNCHANGED <<orders, bookings>>

\* the atomic reservation, then `if (!updatedEvent) { order.status = 'FAILED' ...`
Reserve(r) ==
    /\ Running(r)
    /\ r.pc = "reserve"
    /\ LET seats == r.doc.quantity
           l     == MarkFailed([doc |-> r.doc, dirty |-> r.dirty])
       IN /\ event' = TryReserve(event, seats)
          /\ handlers' = Step(r,
                IF event' # event
                THEN [r EXCEPT !.pc = "createBooking",
                               !.delta = @ + event'.bookedSeats - event.bookedSeats]
                ELSE [r EXCEPT !.pc = "saveFailed", !.path = "noSeats",
                               !.doc = l.doc, !.dirty = l.dirty])
    /\ UNCHANGED <<orders, bookings>>

\* the message of the two early FAILED returns
FailedMessage(path) ==
    IF path = "invalid" THEN "Invalid seats." ELSE "Not enough seats available."

\* Mutant of SaveFailed: the FAILED result is returned without `order.save()`.
SaveFailedUnsaved(r) ==
    /\ Running(r)
    /\ r.pc = "saveFailed"
    /\ handlers' = Step(r, Finish(r, Failed(FailedMessage(r.path))))
    /\ UNCHANGED <<event, orders, bookings>>

\* await order.save(); return { status: 'FAILED', message }
SaveFailed(r) ==
    /\ Running(r)
    /\ r.pc = "saveFailed"
    /\ orders' = [orders EXCEPT ![r.ord] = Saved(r)]
    /\ handlers' = Step(r, Finish([r EXCEPT !.left = Snapshot(Saved(r))],
                                  Failed(FailedMessage(r.path))))
    /\ UNCHANGED <<event, bookings>>

\* ticketIds are interchangeable: generateTicketId() yields a ticketId that
\* some Booking carries, or the least one that none carries
GeneratedTickets ==
    LET used == {bookings[i].ticketId : i \in 1..Len(bookings)}
        free == TicketIds \ used
    IN used \cup {t \in free : \A u \in free : t <= u}

\* generateTicketId() = t; await Booking.create(...); then the assignments up to
\* `await order.save()`, or the jump to the catch block
CreateBooking(r, t, fault) ==
    /\ Running(r)
    /\ r.pc = "createBooking"
    /\ LET b == NewBooking(r.ord, r.doc.quantity, t)
           l == MarkPaid([doc |-> r.doc, dirty |-> r.dirty], b.id, t)
       IN IF ~fault /\ ~TicketTaken(t)
          THEN /\ bookings' = Append(bookings, b)
               /\ handlers' = Step(r,
                        [r EXCEPT !.pc = "savePaid", !.booking = b.id,
                                  !.doc = l.doc, !.dirty = l.dirty,
                                  !.made = @ + Len(bookings') - Len(bookings)])
          ELSE /\ bookings' = bookings
               /\ handlers' = Step(r,
                        [r EXCEPT !.pc = "rollback", !.path = "bookingFailed",
                                  !.dup = ~fault /\ TicketTaken(t)])
    /\ UNCHANGED <<event, orders>>

\* await order.save(); return { status: 'READY', ticketId, bookingId: booking._id }
SavePaid(r, fault) ==
    /\ Running(r)
    /\ r.pc = "savePaid"
    /\ IF ~fault
       THEN /\ orders' = [orders EXCEPT ![r.ord] = Saved(r)]
            /\ handlers' = Step(r,
                    Finish([r EXCEPT !.path = "paid", !.left = Snapshot(Saved(r))],
                           Ready(r.doc.ticketId, r.booking)))
       ELSE /\ orders' = orders
            /\ handlers' = Step(r, [r EXCEPT !.pc = "rollback", !.path = "saveFailed"])
    /\ UNCHANGED <<event, bookings>>

\* catch (bookingErr): the rollback of the seats, then order.status = 'FAILED' ...
Rollback(r) ==
    /\ Running(r)
    /\ r.pc = "rollback"
    /\ LET l == MarkFailed([doc |-> r.doc, dirty |-> r.dirty])
       IN /\ event' = Release(event, r.doc.quantity)
          /\ handlers' = Step(r,
                [r EXCEPT !.pc = "saveRollback", !.doc = l.doc, !.dirty = l.dirty,
                          !.delta = @ + event'.bookedSeats - event.bookedSeats])
    /\ UNCHANGED <<orders, bookings>>

\* Mutant of SaveRollback: the error is not thrown again; finalizePaidOrder
\* returns a FAILED result.
SaveRollbackSwallowing(r) ==
    /\ Running(r)
    /\ r.pc = "saveRollback"
    /\ orders' = [orders EXCEPT ![r.ord] = Saved(r)]
    /\ handlers' = Step(r, Finish([r EXCEPT !.left = Snapshot(Saved(r))],
                                  Failed("Booking failed.")))
    /\ UNCHANGED <<event, bookings>>

\* await order.save(); throw bookingErr
SaveRollback(r) ==
    /\ Running(r)
    /\ r.pc = "saveRollback"
    /\ orders' = [orders EXCEPT ![r.ord] = Saved(r)]
    /\ handlers' = Step(r, Finish([r EXCEPT !.left = Snapshot(Saved(r))], Thrown))
    /\ UNCHANGED <<event, bookings>>

\* ------------------------------------------------------------------- Next
Next ==
    \/ WebhookBadSignature
    \/ \E s \in OrderIds \cup {Null} : PollLookup(s)
    \/ \E o \in OrderIds \cup {Null}, ps \in {"paid", "unpaid"} :
            WebhookCompleted(o, ps)
    \/ \E r \in BagToSet(handlers), a \in {"paid", "unpaid", "error"} :
            PollRetrieve(r, a)
    \/ \E r \in BagToSet(handlers) : Reserve(r)
    \/ \E r \in BagToSet(handlers) : SaveFailed(r)
    \/ \E r \in BagToSet(handlers), t \in GeneratedTickets, f \in BOOLEAN :
            CreateBooking(r, t, f)
    \/ \E r \in BagToSet(handlers), f \in BOOLEAN : SavePaid(r, f)
    \/ \E r \in BagToSet(handlers) : Rollback(r)
    \/ \E r \in BagToSet(handlers) : SaveRollback(r)

Spec == Init /\ [][Next]_vars

\* ------------------------------------------------- session-expired event

\* stripeWebhook, checkout.session.expired, up to `await order.save()`
WebhookExpired(o) ==
    /\ CanStart
    /\ LET r == WithSession(NewHandler("expired"), "unpaid", o)
           l == SetPath([doc |-> orders[o], dirty |-> {}], "status", "EXPIRED")
       IN handlers' = handlers (+) SetToBag({
            IF o = Null
            THEN Answer(r, "ACK", Null)
            ELSE IF orders[o].status = "PENDING"
            THEN [Load(r, o) EXCEPT !.pc = "saveExpired",
                                    !.doc = l.doc, !.dirty = l.dirty]
            ELSE Answer(Load(r, o), "ACK", Null)})
    /\ UNCHANGED <<event, orders, bookings>>

\* await order.save(); return res.json({ received: true })
SaveExpired(r) ==
    /\ Running(r)
    /\ r.pc = "saveExpired"
    /\ orders' = [orders EXCEPT ![r.ord] = Saved(r)]
    /\ handlers' = Step(r, Answer([r EXCEPT !.left = Snapshot(Saved(r)), !.dirty = {}],
                                  "ACK", Null))
    /\ UNCHANGED <<event, bookings>>

\* the payment flow with the provider's session-expired events
NextExpiry ==
    \/ Next
    \/ \E o \in OrderIds \cup {Null} : WebhookExpired(o)
    \/ \E r \in BagToSet(handlers) : SaveExpired(r)

SpecExpiry == Init /\ [][NextExpiry]_vars

\* --------------------------------------------------- createCheckoutSession

\* Number.isInteger(n) && n > 0
mustBeInt(n) == n % Whole = 0 /\ n > 0

\* Math.max((ev.totalSeats || 0) - (ev.bookedSeats || 0), 0)
Available(ev) ==
    IF ev.totalSeats - ev.bookedSeats > 0 THEN ev.totalSeats - ev.bookedSeats ELSE 0

\* the _id of a new StripeOrder document: one that no order has
NewOrderId ==
    CHOOSE i \in 1..(Cardinality(DOMAIN orders) + 1) : i \notin DOMAIN orders

\* history: the body of a checkout request and the seats it found available
Request(quantity, fieldsOk, known) ==
    [quantity |-> quantity, fieldsOk |-> fieldsOk, known |-> known,
     available |-> Available(event)]

\* Mutant of CheckoutStart: the early availability check is missing.
CheckoutStartWithoutAvailability(quantity, fieldsOk, known) ==
    /\ CanStart
    /\ LET r == [NewHandler("checkout") EXCEPT
                    !.req = Request(quantity, fieldsOk, known)]
       IN handlers' = handlers (+) SetToBag({
            IF ~fieldsOk \/ ~mustBeInt(quantity)
            THEN Answer(r, "BAD_REQUEST", Null)
            ELSE IF ~known
            THEN Answer(r, "EVENT_NOT_FOUND", Null)
            ELSE [r EXCEPT !.pc = "createOrder", !.doc = OrderDoc(quantity)]})
    /\ UNCHANGED <<event, orders, bookings>>

\* createCheckoutSession up to `await StripeOrder.create`: the validation of
\* the body (fieldsOk: eventId, ticketName and unitAmount are acceptable), the
\* lookup of the event (known: it exists) and the early availability check
CheckoutStart(quantity, fieldsOk, known) ==
    /\ CanStart
    /\ LET r == [NewHandler("checkout") EXCEPT
                    !.req = Request(quantity, fieldsOk, known)]
       IN handlers' = handlers (+) SetToBag({
            IF ~fieldsOk \/ ~mustBeInt(quantity)
            THEN Answer(r, "BAD_REQUEST", Null)
            ELSE IF ~known
            THEN Answer(r, "EVENT_NOT_FOUND", Null)
            ELSE IF Available(event) < quantity
            THEN Answer(r, "NOT_ENOUGH_SEATS", Null)
            ELSE [r EXCEPT !.pc = "createOrder", !.doc = OrderDoc(quantity)]})
    /\ UNCHANGED <<event, orders, bookings>>

\* Mutant of CheckoutCreateOrder: the document gets its _id but is not
\* persisted before the provider is asked.
CheckoutCreateOrderUnsaved(r) ==
    /\ Running(r)
    /\ r.pc = "createOrder"
    /\ handlers' = Step(r, [r EXCEPT !.pc = "createSession", !.ord = NewOrderId])
    /\ UNCHANGED <<event, orders, bookings>>

\* Mutant of CheckoutCreateOrder: the seats of the order are reserved when the
\* order is created.
CheckoutCreateOrderReserving(r) ==
    /\ Running(r)
    /\ r.pc = "createOrder"
    /\ orders' = orders @@ (NewOrderId :> r.doc)
    /\ event' = TryReserve(event, r.doc.quantity)
    /\ handlers' = Step(r, [r EXCEPT !.pc = "createSession", !.ord = NewOrderId])
    /\ UNCHANGED bookings

\* const order = await StripeOrder.create({... quantity, status: 'PENDING'})
CheckoutCreateOrder(r) ==
    /\ Running(r)
    /\ r.pc = "createOrder"
    /\ orders' = orders @@ (NewOrderId :> r.doc)
    /\ handlers' = Step(r, [r EXCEPT !.pc = "createSession", !.ord = NewOrderId])
    /\ UNCHANGED <<event, bookings>>

\* const session = await stripe.checkout.sessions.create({... metadata:
\* { orderId: String(order._id) ...}}); the provider may refuse (fault)
CheckoutCreateSession(r, fault) ==
    /\ Running(r)
    /\ r.pc = "createSession"
    /\ handlers' = Step(r,
            IF fault
            THEN Answer(r, "ERROR", Null)
            ELSE [WithSession(r, "unpaid", r.ord) EXCEPT !.pc = "saveSession"])
    /\ UNCHANGED <<event, orders, bookings>>

\* order.stripeSessionId = session.id; await order.save();
\* return res.json({ url: session.url, orderId: order._id })
CheckoutSaveSession(r) ==
    /\ Running(r)
    /\ r.pc = "saveSession"
    /\ handlers' = Step(r, Answer(r, "URL", Null))
    /\ UNCHANGED <<event, orders, bookings>>

\* the checkout requests on their own
NextCheckout ==
    \/ \E q \in 0..Seats(MaxSeats), fieldsOk \in BOOLEAN, known \in BOOLEAN :
            CheckoutStart(q, fieldsOk, known)
    \/ \E r \in BagToSet(handlers) : CheckoutCreateOrder(r)
    \/ \E r \in BagToSet(handlers), f \in BOOLEAN : CheckoutCreateSession(r, f)
    \/ \E r \in BagToSet(handlers) : CheckoutSaveSession(r)

SpecCheckout == Init /\ [][NextCheckout]_vars

\* =================================================================== claims

RECURSIVE SumSeats(_)
SumSeats(bs) == IF bs = <<>> THEN 0 ELSE Head(bs).seats + SumSeats(Tail(bs))

Min(a, b) == IF a <= b THEN a ELSE b

\* the distinct handler records
Handlers == BagToSet(handlers)

\* the number of handlers whose record is in S
NumberOf(S) == BagCardinality([r \in S |-> handlers[r]])

\* r1 and r2 are two handlers
TwoHandlers(r1, r2) ==
    /\ r1 \in Handlers /\ r2 \in Handlers
    /\ r1 # r2 \/ CopiesIn(r1, handlers) > 1

\* no request handler is between two awaits
Quiescent == \A r \in Handlers : r.pc = "done"

\* the invocation of finalizePaidOrder by handler r got past the idempotency check
Invoked(r) == r.path # "short" /\
              (r.pc \in {"reserve", "saveFailed", "createBooking", "savePaid",
                         "rollback", "saveRollback"}
               \/ (r.pc = "done" /\ r.fin.status # "NONE"))

\* handler r's conditional findOneAndUpdate has run and incremented bookedSeats
ReserveSucceeded(r) ==
    \/ r.pc \in {"createBooking", "savePaid", "rollback", "saveRollback"}
    \/ r.pc = "done" /\ r.path \in {"paid", "bookingFailed", "saveFailed"}

\* handler r's conditional findOneAndUpdate has run and matched no document
ReserveRejected(r) == r.path = "noSeats"

\* handler r's try block has thrown (Booking.create or order.save failed)
Faulted(r) == r.path \in {"bookingFailed", "saveFailed"}

NoFault == \A r \in Handlers : ~Faulted(r)

\* C1: in every reachable state, whatever finalizePaidOrder invocations have run,
\* are running, have failed or have been compensated, 0 <= bookedSeats <= totalSeats.
C1_SeatsWithinCapacity ==
    0 <= event.bookedSeats /\ event.bookedSeats <= event.totalSeats

\* a compensated invocation beside one that the capacity check rejected
C1_Witness ==
    \E r1, r2 \in Handlers :
        /\ r1.pc = "done" /\ r1.path = "bookingFailed"
        /\ r2.pc = "done" /\ ReserveRejected(r2)

\* C2: with every order for 1 seat and no seat released, N reservations against
\* totalSeats = C have min(N, C) successes, N - min(N, C) rejections, and
\* bookedSeats = min(N, C), at every point of every interleaving.
C2_ReservationsLinearizable ==
    LET ok  == NumberOf({r \in Handlers : ReserveSucceeded(r)})
        rej == NumberOf({r \in Handlers : ReserveRejected(r)})
        n   == ok + rej
        c   == event.totalSeats \div Whole
    IN ((\A o \in OrderIds : orders[o].quantity = Seats(1)) /\ NoFault)
       => /\ ok = Min(n, c)
          /\ rej = n - Min(n, c)
          /\ event.bookedSeats = Seats(Min(n, c))

\* more reservations than seats: every handler has tried, one was rejected
C2_Witness ==
    /\ \A o \in OrderIds : orders[o].quantity = Seats(1)
    /\ NoFault
    /\ BagCardinality(handlers) = NumProcs
    /\ \A r \in Handlers : ReserveSucceeded(r) \/ ReserveRejected(r)
    /\ \E r \in Handlers : ReserveRejected(r)
    /\ \E r \in Handlers : ReserveSucceeded(r)

\* C3: no two Bookings carry the same stripeSessionId.
C3_OneBookingPerSession ==
    \A i, j \in 1..Len(bookings) :
        i # j => bookings[i].stripeSessionId # bookings[j].stripeSessionId

\* handlers r1 and r2 both ran finalizePaidOrder on the same order, past the
\* idempotency check, and both have answered; r1 committed
RacedOnOneOrder(r1, r2) ==
    /\ TwoHandlers(r1, r2)
    /\ r1.pc = "done" /\ r2.pc = "done"
    /\ Invoked(r1) /\ Invoked(r2)
    /\ r1.ord = r2.ord
    /\ r1.path = "paid"
    /\ NoFault

\* C4: when two invocations raced to finalize one paid order and both have
\* completed, bookedSeats has grown by the order's quantity, not twice that.
C4_LoserReleased ==
    \A r1, r2 \in Handlers :
        RacedOnOneOrder(r1, r2) => r1.delta + r2.delta = orders[r1.ord].quantity

\* C5: two concurrent invocations on one paid order both return READY with the
\* same ticketId.
C5_SameTicket ==
    \A r1, r2 \in Handlers :
        RacedOnOneOrder(r1, r2)
            => /\ r1.fin.status = "READY"
               /\ r2.fin.status = "READY"
               /\ r1.fin.ticketId = r2.fin.ticketId

\* C6: whenever no finalizePaidOrder invocation is in progress, bookedSeats is
\* the sum of the seats of the Bookings of the event.
C6_SeatsMatchBookings ==
    Quiescent => event.bookedSeats = SumSeats(bookings)

\* C7: an invocation whose reservation succeeded and whose Booking.create failed
\* ends with its net change to bookedSeats at 0 and with the order FAILED.
C7_Compensation ==
    \A r \in Handlers :
        (r.pc = "done" /\ r.path = "bookingFailed")
            => r.delta = 0 /\ r.left.status = "FAILED"

\* C8: totalSeats = 1, two orders of quantity 1, one invocation each and no
\* failed write: once both have answered, one order is PAID with a Booking, the
\* other FAILED with the not-enough-seats message and no Booking, bookedSeats = 1.
PaidWithBooking(o) ==
    /\ orders[o].status = "PAID"
    /\ \E i \in 1..Len(bookings) :
        /\ bookings[i].id = orders[o].bookingId
        /\ bookings[i].stripeSessionId = o

FailedWithoutBooking(o, r) ==
    /\ orders[o].status = "FAILED"
    /\ \A i \in 1..Len(bookings) : bookings[i].stripeSessionId # o
    /\ r.fin = Failed("Not enough seats available.")

ScenarioA(r1, r2) ==
    /\ event.totalSeats = Seats(1)
    /\ TwoHandlers(r1, r2)
    /\ r1.pc = "done" /\ r2.pc = "done"
    /\ Invoked(r1) /\ Invoked(r2)
    /\ r1.ord # r2.ord
    /\ NumberOf({r \in Handlers : Invoked(r)}) = 2
    /\ Quiescent
    /\ NoFault

C8_LastSeat ==
    \A r1, r2 \in Handlers :
        ScenarioA(r1, r2)
            => /\ event.bookedSeats = Seats(1)
               /\ \/ PaidWithBooking(r1.ord) /\ FailedWithoutBooking(r2.ord, r2)
                  \/ PaidWithBooking(r2.ord) /\ FailedWithoutBooking(r1.ord, r1)

C8_Witness == \E r1, r2 \in Handlers : ScenarioA(r1, r2)

\* the order that handler r read had both ticketId and bookingId set
SawResolved(r) == r.seen.ticketId # Null /\ r.seen.bookingId # Null

\* C9: a handler that read an order with ticketId and bookingId both set has
\* answered at once and has changed no event, Booking or order; where it called
\* finalizePaidOrder, the call returned READY with those two ids.
C9_ResolvedOrderUntouched ==
    \A r \in Handlers :
        SawResolved(r)
            => /\ r.pc = "done"
               /\ r.delta = 0 /\ r.made = 0 /\ r.left = NoSave
               /\ \/ r.path = "short"
                     /\ r.fin = Ready(r.seen.ticketId, r.seen.bookingId)
                  \/ r.path = "none" /\ r.fin = NoFin

\* an invocation that took the idempotency short-circuit
C9_Witness == \E r \in Handlers : r.pc = "done" /\ r.path = "short" /\ SawResolved(r)

\* C10: an invocation that returns READY after the Booking write has inserted
\* one Booking with seats = quantity for the order's event, has raised
\* bookedSeats by quantity, and leaves the order PAID with that Booking's ids.
C10_ReadyRoundTrip ==
    \A r \in Handlers :
        (r.pc = "done" /\ r.path = "paid")
            => /\ r.fin.status = "READY"
               /\ r.made = 1
               /\ r.delta = orders[r.ord].quantity
               /\ r.fin.bookingId \in 1..Len(bookings)
               /\ bookings[r.fin.bookingId] =
                    [id |-> r.fin.bookingId, event |-> orders[r.ord].eventId,
                     seats |-> orders[r.ord].quantity, ticketId |-> r.fin.ticketId,
                     stripeSessionId |-> r.ord]
               /\ r.left = [status |-> "PAID", ticketId |-> r.fin.ticketId,
                            bookingId |-> r.fin.bookingId]

C10_Witness ==
    \E r \in Handlers : r.pc = "done" /\ r.path = "paid" /\ orders[r.ord].quantity > Seats(1)

\* C11: once the persisted status of an order is PAID, no step of a finalize
\* invocation or of a session-expired event changes it.
C11_PaidIsTerminal ==
    [][\A o \in OrderIds :
        orders[o].status = "PAID" => orders'[o].status = "PAID"]_vars

\* the statuses from which no transition is specified, PAID aside
Terminal == {"FAILED", "EXPIRED", "CANCELLED"}

\* C12: no handler has reserved seats for an order that it read as FAILED,
\* EXPIRED or CANCELLED (and so none goes on to create a Booking for it or to
\* move it to another status).
C12_TerminalUntouched ==
    \A r \in Handlers : r.pc = "createBooking" => r.doc.status \notin Terminal

FinalizeCalled(r) ==
    \/ r.pc \in {"reserve", "saveFailed", "createBooking", "savePaid",
                 "rollback", "saveRollback"}
    \/ r.path # "none"
    \/ r.fin # NoFin

\* handler r has written nothing to the store
Untouched(r) == r.delta = 0 /\ r.made = 0 /\ r.left = NoSave

\* C14: a poll calls finalizePaidOrder only with a session that the provider
\* reports paid; a poll whose session is not paid has answered PENDING and has
\* changed no order, event or Booking.
C14_PollFinalizesOnlyPaid ==
    \A r \in Handlers :
        r.kind = "poll"
            => /\ FinalizeCalled(r) => r.session.payment_status = "paid"
               /\ r.session.payment_status = "unpaid"
                    => /\ r.pc = "done"
                       /\ r.resp = [status |-> "PENDING", ticketId |-> Null]
                       /\ Untouched(r)

\* one poll was told unpaid, another was told paid and has finalized
C14_Witness ==
    \E r1, r2 \in Handlers :
        /\ r1.kind = "poll" /\ r1.session.payment_status = "unpaid"
        /\ r2.kind = "poll" /\ r2.pc = "done" /\ r2.path = "paid"

\* C15: a webhook handler calls finalizePaidOrder only for a
\* checkout.session.completed event that is paid and names an existing order;
\* a completed event that is not paid or names no existing order is
\* acknowledged and has changed no order, event or Booking.
C15_WebhookFinalizesOnlyPaid ==
    \A r \in Handlers :
        /\ r.kind = "expired" => ~FinalizeCalled(r)
        /\ r.kind = "webhook"
            => /\ FinalizeCalled(r)
                    => /\ r.session.payment_status = "paid"
                       /\ r.session.orderId \in OrderIds
               /\ (r.session # NoSession /\
                   (r.session.payment_status # "paid" \/ r.session.orderId = Null))
                    => /\ r.pc = "done"
                       /\ r.resp = [status |-> "ACK", ticketId |-> Null]
                       /\ ~FinalizeCalled(r)
                       /\ Untouched(r)

\* an unpaid completed event for an existing order, and a paid one that names
\* no existing order
C15_Witness ==
    \E r1, r2 \in Handlers :
        /\ r1.kind = "webhook" /\ r1.session.payment_status = "unpaid"
        /\ r1.session.orderId \in OrderIds
        /\ r2.kind = "webhook" /\ r2.session.payment_status = "paid"
        /\ r2.session.orderId = Null

\* C16: a webhook request whose signature did not verify (the handler never
\* held an event) has been answered with the signature error, not the
\* acknowledgment, and has changed no order, event or Booking.
C16_UnverifiedRejected ==
    \A r \in Handlers :
        (r.kind \in {"webhook", "expired"} /\ r.session = NoSession)
            => /\ r.pc = "done"
               /\ r.resp = [status |-> "SIGNATURE_ERROR", ticketId |-> Null]
               /\ ~FinalizeCalled(r)
               /\ r.seen = NotSeen
               /\ Untouched(r)

\* a rejected request, after a verified one has committed a Booking
C16_Witness ==
    /\ \E r \in Handlers : r.kind = "webhook" /\ r.session = NoSession
    /\ Len(bookings) > 0

\* C17: a step that sets an order to EXPIRED (only the session-expired event
\* does) finds its persisted status PENDING, and changes neither bookedSeats
\* nor a Booking; an order in another status is not changed by it.
C17_ExpiresOnlyPending ==
    [][\A o \in OrderIds :
        (orders'[o].status = "EXPIRED" /\ orders[o].status # "EXPIRED")
            => /\ orders[o].status = "PENDING"
               /\ event' = event
               /\ bookings' = bookings]_vars

\* handler r is a checkout request that holds the session the provider created
HasCheckoutSession(r) == r.kind = "checkout" /\ r.session # NoSession

\* C18: in every state, the session that a checkout request obtained from the
\* provider names in its metadata an order that is persisted, PENDING, for the
\* requested quantity; no two sessions name the same order.
C18_SessionNamesOneOrder ==
    /\ \A r \in Handlers :
        HasCheckoutSession(r)
            => /\ r.session.orderId \in DOMAIN orders
               /\ orders[r.session.orderId].status = "PENDING"
               /\ orders[r.session.orderId].quantity = r.doc.quantity
                    \/ r.pc = "done"
    /\ \A r1, r2 \in Handlers :
        (TwoHandlers(r1, r2) /\ HasCheckoutSession(r1) /\ HasCheckoutSession(r2))
            => r1.session.orderId # r2.session.orderId

\* two checkout requests have obtained their sessions
C18_Witness ==
    \E r1, r2 \in Handlers :
        TwoHandlers(r1, r2) /\ HasCheckoutSession(r1) /\ HasCheckoutSession(r2)

\* C19: an order with status PAID has bookingId and ticketId set, the Booking
\* with that id carries that ticketId, the order's event and seats = quantity,
\* and the order is as a finalizePaidOrder invocation that returned READY after
\* its Booking write saved it.
C19_PaidHasBooking ==
    \A o \in OrderIds :
        orders[o].status = "PAID"
            => /\ orders[o].bookingId # Null /\ orders[o].ticketId # Null
               /\ orders[o].bookingId \in 1..Len(bookings)
               /\ bookings[orders[o].bookingId] =
                    [id |-> orders[o].bookingId, event |-> orders[o].eventId,
                     seats |-> orders[o].quantity, ticketId |-> orders[o].ticketId,
                     stripeSessionId |-> o]
               /\ \E r \in Handlers :
                    /\ r.pc = "done" /\ r.path = "paid" /\ r.ord = o
                    /\ r.left = Snapshot(orders[o])

\* a PAID order of more than one seat, while another finalization of it has
\* failed and is about to save
C19_Witness ==
    \E o \in OrderIds, r \in Handlers :
        /\ orders[o].status = "PAID" /\ orders[o].quantity > Seats(1)
        /\ r.ord = o /\ r.pc \in {"saveFailed", "saveRollback"}

\* C20: an invocation whose conditional update matched no document has left
\* bookedSeats alone, has created no Booking, has left the order FAILED and has
\* returned FAILED with the not-enough-seats message.
C20_RejectedLeavesFailed ==
    \A r \in Handlers :
        (r.pc = "done" /\ ReserveRejected(r))
            => /\ r.delta = 0 /\ r.made = 0
               /\ r.fin = Failed("Not enough seats available.")
               /\ r.left.status = "FAILED"

\* ------------------------------------------ orders of any stored quantity

\* The numbers of seats that an order in the store can carry: the schema of
\* StripeOrder asks for a Number, of any value (a missing quantity reads as
\* 0 in `Number(order.quantity || 0)`).
Quantities == (-1)..Seats(MaxSeats)

\* as Init, with PENDING orders of every quantity the schema admits
InitQuantity ==
    /\ \E t \in 1..MaxSeats : event = [totalSeats |-> Seats(t), bookedSeats |-> 0]
    /\ \E q \in [OrderIds -> Quantities] :
            /\ \A o, n \in OrderIds : o < n => q[o] <= q[n]
            /\ orders = [o \in OrderIds |-> OrderDoc(q[o])]
    /\ bookings = <<>>
    /\ handlers = EmptyBag

SpecQuantity == InitQuantity /\ [][Next]_vars

C22_CollisionRetried ==
    \A r \in Handlers :
        r.dup => /\ r.pc \notin {"rollback", "saveRollback"}
                 /\ r.pc = "done" => r.fin # Thrown /\ r.left.status # "FAILED"

\* ------------------------------------- event routes that write the Event

\* models/Event.js, pre('save'): bookedSeats is clamped into 0..totalSeats on
\* the in-memory document
PreSave(l) ==
    LET a == IF l.doc.bookedSeats > l.doc.totalSeats
             THEN SetPath(l, "bookedSeats", l.doc.totalSeats) ELSE l
    IN IF a.doc.bookedSeats < 0 THEN SetPath(a, "bookedSeats", 0) ELSE a

\* event.save(): the pre-save hook, then $set of the modified paths
SaveEvent(l) == SaveOrder(event, PreSave(l))

\* the admin's change of an event, up to `await ev.save()`: the event is read,
\* totalSeats is replaced when the body carries one, bookedSeats is clamped
AdminUpdate(totalSeats, known) ==
    /\ CanStart
    /\ LET r == NewHandler("admin")
           a == IF totalSeats = Null THEN [doc |-> event, dirty |-> {}]
                ELSE SetPath([doc |-> event, dirty |-> {}], "totalSeats", totalSeats)
           b == IF a.doc.bookedSeats > a.doc.totalSeats
                THEN SetPath(a, "bookedSeats", a.doc.totalSeats) ELSE a
           c == IF b.doc.bookedSeats < 0 THEN SetPath(b, "bookedSeats", 0) ELSE b
       IN handlers' = handlers (+) SetToBag({
            IF ~known
            THEN Answer(r, "EVENT_NOT_FOUND", Null)
            ELSE [r EXCEPT !.pc = "adminSave", !.doc = c.doc, !.dirty = c.dirty]})
    /\ UNCHANGED <<event, orders, bookings>>

\* await ev.save(); return res.json({ message: 'Event updated successfully' ... })
AdminSave(r) ==
    /\ Running(r)
    /\ r.pc = "adminSave"
    /\ event' = SaveEvent(r)
    /\ handlers' = Step(r,
            Answer([r EXCEPT !.dirty = {},
                             !.delta = @ + event'.bookedSeats - event.bookedSeats],
                   "OK", Null))
    /\ UNCHANGED <<orders, bookings>>

\* bookSeats up to `await event.save()`: the event is read, the remaining
\* seats are compared in the handler, bookedSeats is set to booked + seats
BookSeats(seats, known) ==
    /\ CanStart
    /\ LET r == NewHandler("bookSeats")
           l == SetPath([doc |-> event, dirty |-> {}], "bookedSeats",
                        event.bookedSeats + seats)
       IN handlers' = handlers (+) SetToBag({
            IF InvalidSeats(seats)
            THEN Answer(r, "BAD_REQUEST", Null)
            ELSE IF ~known
            THEN Answer(r, "EVENT_NOT_FOUND", Null)
            ELSE IF seats > event.totalSeats - event.bookedSeats
            THEN Answer(r, "NOT_ENOUGH_SEATS", Null)
            ELSE [r EXCEPT !.pc = "bookSeatsSave", !.doc = l.doc, !.dirty = l.dirty,
                           !.req = Request(seats, TRUE, known)]})
    /\ UNCHANGED <<event, orders, bookings>>

\* await event.save(); return res.json({ message: 'Seats booked successfully' ... })
BookSeatsSave(r) ==
    /\ Running(r)
    /\ r.pc = "bookSeatsSave"
    /\ event' = SaveEvent(r)
    /\ handlers' = Step(r,
            Answer([r EXCEPT !.dirty = {},
                             !.delta = @ + event'.bookedSeats - event.bookedSeats],
                   "OK", Null))
    /\ UNCHANGED <<orders, bookings>>

\* the payment flow beside the routes that write the Event document
NextAdmin ==
    \/ Next
    \/ \E t \in {Null} \cup {Seats(n) : n \in 1..MaxSeats}, known \in BOOLEAN :
            AdminUpdate(t, known)
    \/ \E r \in BagToSet(handlers) : AdminSave(r)
    \/ \E n \in 0..MaxSeats, known \in BOOLEAN : BookSeats(Seats(n), known)
    \/ \E r \in BagToSet(handlers) : BookSeatsSave(r)

SpecAdmin == Init /\ [][NextAdmin]_vars

\* C23: the release of a failed invocation, and every other step, leaves
\* bookedSeats at 0 or above, whatever finalization or administrative update
\* of the event ran between the reservation and the release.
C23_ReleaseFlooredAtZero ==
    /\ event.bookedSeats >= 0
    /\ \A r \in Handlers : r.pc = "saveRollback" => event.bookedSeats >= 0

\* C24: every step that changes bookedSeats is the capacity-checked increment
\* of a handler at its reservation, or the decrement of a handler at its
\* rollback; no step writes a bookedSeats that a handler computed from an
\* event it had read.
C24_OnlyAtomicPrimitives ==
    [][event'.bookedSeats # event.bookedSeats
        => \E r \in Handlers :
            \/ /\ r.pc = "reserve"
               /\ HasCapacity(event, r.doc.quantity)
               /\ event' = IncBookedSeats(event, r.doc.quantity)
            \/ /\ r.pc = "rollback"
               /\ event' = Release(event, r.doc.quantity)]_vars

\* what a poll reads on an order before it asks the provider
PendingSeen == [status |-> "PENDING", ticketId |-> Null, bookingId |-> Null]

\* the poll handler r asked the provider and got no session back
RetrieveFailed(r) ==
    r.kind = "poll" /\ r.seen = PendingSeen /\ r.pc # "retrieve"
        /\ r.session = NoSession

\* C25: a poll asks the provider only for an order it read as PENDING with
\* ticketId and bookingId null; when the lookup fails the poll answers with
\* the error, has not called finalizePaidOrder and has changed no order,
\* event or Booking, so the order is as any later trigger would first find it.
C25_LookupFailureLeavesPending ==
    \A r \in Handlers :
        /\ (r.kind = "poll" /\ r.pc = "retrieve") => r.seen = PendingSeen
        /\ RetrieveFailed(r)
            => /\ r.pc = "done"
               /\ r.resp = [status |-> "ERROR", ticketId |-> Null]
               /\ ~FinalizeCalled(r)
               /\ Untouched(r)

\* a poll of an order failed at the provider, and another trigger has
\* finalized that order to PAID: the order beside it was FAILED from the
\* start, so that the poll cannot have been for it
C25_Witness ==
    \E r1, r2 \in Handlers :
        /\ BagCardinality(handlers) = 2
        /\ RetrieveFailed(r1)
        /\ r2.pc = "done" /\ r2.path = "paid"
        /\ orders[r2.ord].status = "PAID"
        /\ \A o \in OrderIds \ {r2.ord} : orders[o].status = "FAILED"

\* ------------------------------------ store failures outside finalizePaidOrder

\* stripeWebhook: `await StripeOrder.findById(orderId)` throws, in the
\* completed branch or in the expired branch; the outer catch answers 500
WebhookLookupFails(kind, o, paymentStatus) ==
    /\ CanStart
    /\ handlers' = handlers (+) SetToBag({
            Answer(WithSession(NewHandler(kind), paymentStatus, o), "ERROR", Null)})
    /\ UNCHANGED <<event, orders, bookings>>

\* stripeWebhook, expired branch: `await order.save()` throws; the outer catch
\* answers 500
SaveExpiredFails(r) ==
    /\ Running(r)
    /\ r.pc = "saveExpired"
    /\ handlers' = Step(r, Answer([r EXCEPT !.dirty = {}], "ERROR", Null))
    /\ UNCHANGED <<event, orders, bookings>>

\* the payment flow with store failures in the webhook handler itself
NextFaults ==
    \/ NextExpiry
    \/ \E o \in OrderIds :
        \/ \E ps \in {"paid", "unpaid"} : WebhookLookupFails("webhook", o, ps)
        \/ WebhookLookupFails("expired", o, "unpaid")
    \/ \E r \in BagToSet(handlers) : SaveExpiredFails(r)

SpecFaults == Init /\ [][NextFaults]_vars

\* C26: a webhook request whose signature verified (the handler holds the
\* provider's event) is answered with the acknowledgment, whatever store
\* operation failed while it was handled.
C26_VerifiedAlwaysAcknowledged ==
    \A r \in Handlers :
        (r.kind \in {"webhook", "expired"} /\ r.session # NoSession /\ r.pc = "done")
            => r.resp = [status |-> "ACK", ticketId |-> Null]

\* C27: an invocation whose try block failed has, after its rollback, thrown
\* to the trigger: finalizePaidOrder has returned no result, the poll has
\* answered with the error (not READY, not PENDING, not FAILED), and the
\* webhook, which logs the error, has acknowledged.
C27_FailureReachesTrigger ==
    \A r \in Handlers :
        (r.pc = "done" /\ Faulted(r))
            => /\ r.fin = Thrown
               /\ r.kind = "poll" => r.resp = [status |-> "ERROR", ticketId |-> Null]
               /\ r.kind = "webhook" => r.resp = [status |-> "ACK", ticketId |-> Null]

\* a poll whose Booking write failed, and a webhook whose Booking write failed
C27_Witness ==
    \E r1, r2 \in Handlers :
        /\ r1.kind = "poll" /\ r1.pc = "done" /\ r1.path = "bookingFailed"
        /\ r2.kind = "webhook" /\ r2.pc = "done" /\ r2.path = "bookingFailed"

\* the poll handler r has answered (status, ticketId) from the order alone: it
\* has not asked the provider, has not called finalizePaidOrder and has
\* changed no order, event or Booking
AnsweredFromOrder(r, status, t) ==
    /\ r.pc = "done"
    /\ r.resp = [status |-> status, ticketId |-> t]
    /\ r.session = NoSession
    /\ ~FinalizeCalled(r)
    /\ Untouched(r)

\* C28: a poll that read a resolved order has answered READY with the stored
\* ticketId; a poll that read an order with status FAILED, EXPIRED or
\* CANCELLED has answered that status; a poll that found no order has
\* answered NOT_FOUND; each of them from the order alone.
C28_PollAnswersFromOrder ==
    \A r \in Handlers :
        r.kind = "poll"
            => /\ SawResolved(r) => AnsweredFromOrder(r, "READY", r.seen.ticketId)
               /\ r.seen.status \in Terminal
                    => AnsweredFromOrder(r, r.seen.status, Null)
               /\ r.seen = NotSeen => AnsweredFromOrder(r, "NOT_FOUND", Null)

\* the checkout request asked for something createCheckoutSession refuses
Refusable(req) ==
    \/ ~req.fieldsOk
    \/ ~mustBeInt(req.quantity)
    \/ ~req.known
    \/ req.quantity > req.available

\* the checkout handler r has created its order
OrderCreated(r) ==
    /\ r.kind = "checkout"
    /\ \/ r.pc \in {"createSession", "saveSession"}
       \/ r.pc = "done" /\ r.resp.status \in {"URL", "ERROR"}

\* C29: a checkout request with a missing eventId or ticketName, a quantity or
\* unitAmount that is not a positive integer, an unknown event, or a quantity
\* above the available seats has been rejected: it holds no provider session
\* and has created no order (the orders are those of the requests that were
\* not rejected), and no event has changed.
C29_CheckoutRejected ==
    /\ \A r \in Handlers :
        (r.kind = "checkout" /\ Refusable(r.req))
            => /\ r.pc = "done"
               /\ r.resp.status \in {"BAD_REQUEST", "EVENT_NOT_FOUND", "NOT_ENOUGH_SEATS"}
               /\ r.session = NoSession
               /\ ~OrderCreated(r)
               /\ Untouched(r)
    /\ Cardinality(DOMAIN orders) =
            Cardinality(OrderIds) + NumberOf({r \in Handlers : OrderCreated(r)})
    /\ event.bookedSeats = 0

\* a request for half a seat more than one seat and a request for more seats
\* than the event has were rejected
C29_Witness ==
    \E r1, r2 \in Handlers :
        /\ r1.kind = "checkout" /\ r1.req.fieldsOk /\ r1.req.known
        /\ r1.req.quantity = Seats(1) + 1
        /\ r1.resp.status = "BAD_REQUEST"
        /\ r2.kind = "checkout" /\ r2.req.quantity > r2.req.available
        /\ r2.resp.status = "NOT_ENOUGH_SEATS"

\* ------------------------------------------------ manual (non-Stripe) booking

\* Booking.create({ user, event: eventId, name, email, seats: seatCount,
\* ticketId, paymentStatus: 'PAID' }): a Booking of no order
ManualBookingDoc(seats, t) ==
    [id |-> Len(bookings) + 1, event |-> TheEvent, seats |-> seats,
     ticketId |-> t, stripeSessionId |-> Null]

\* POST /api/bookings up to `await Booking.create`: the validation of the body
\* (fieldsOk: eventId, name and email are there), then the atomic reservation
\* (known: the eventId is that of an event)
ManualReserve(seats, fieldsOk, known) ==
    /\ CanStart
    /\ LET r == NewHandler("manual")
       IN IF ~fieldsOk \/ InvalidSeats(seats)
          THEN /\ event' = event
               /\ handlers' = handlers (+) SetToBag({Answer(r, "BAD_REQUEST", Null)})
          ELSE /\ event' = IF known THEN TryReserve(event, seats) ELSE event
               /\ handlers' = handlers (+) SetToBag({
                    IF event' # event
                    THEN [r EXCEPT !.pc = "manualCreate",
                                   !.req = Request(seats, fieldsOk, known),
                                   !.delta = event'.bookedSeats - event.bookedSeats]
                    ELSE Answer(r, "NOT_ENOUGH_SEATS", Null)})
    /\ UNCHANGED <<orders, bookings>>

\* generateTicketId() = t; await Booking.create(...); 201 with the ticketId, or
\* the catch block's 500 (the seats stay reserved)
ManualCreate(r, t, fault) ==
    /\ Running(r)
    /\ r.pc = "manualCreate"
    /\ IF ~fault /\ ~TicketTaken(t)
       THEN /\ bookings' = Append(bookings, ManualBookingDoc(r.req.quantity, t))
            /\ handlers' = Step(r,
                    Answer([r EXCEPT !.req = NoRequest,
                                     !.made = @ + Len(bookings') - Len(bookings)],
                           "CREATED", t))
       ELSE /\ bookings' = bookings
            /\ handlers' = Step(r,
                    Answer([r EXCEPT !.req = NoRequest,
                                     !.dup = ~fault /\ TicketTaken(t)],
                           "ERROR", Null))
    /\ UNCHANGED <<event, orders>>

\* the two writers of Bookings side by side: the manual booking route, and
\* finalizePaidOrder as the webhook calls it (the poll calls the same function)
NextManual ==
    \/ \E o \in OrderIds \cup {Null}, ps \in {"paid", "unpaid"} :
            WebhookCompleted(o, ps)
    \/ \E r \in BagToSet(handlers) : Reserve(r)
    \/ \E r \in BagToSet(handlers) : SaveFailed(r)
    \/ \E r \in BagToSet(handlers), t \in GeneratedTickets, f \in BOOLEAN :
            CreateBooking(r, t, f)
    \/ \E r \in BagToSet(handlers), f \in BOOLEAN : SavePaid(r, f)
    \/ \E r \in BagToSet(handlers) : Rollback(r)
    \/ \E r \in BagToSet(handlers) : SaveRollback(r)
    \/ \E n \in 0..MaxSeats, fieldsOk \in BOOLEAN, known \in BOOLEAN :
            ManualReserve(Seats(n), fieldsOk, known)
    \/ \E r \in BagToSet(handlers), t \in GeneratedTickets, f \in BOOLEAN :
            ManualCreate(r, t, f)

SpecManual == Init /\ [][NextManual]_vars

\* C30: in every reachable state no two Bookings carry the same ticketId,
\* whether finalizePaidOrder or the manual booking route created them; a
\* handler whose Booking write was rejected for a ticketId already used has
\* inserted no Booking.
C30_TicketIdsUnique ==
    /\ \A i, j \in 1..Len(bookings) :
            i # j => bookings[i].ticketId # bookings[j].ticketId
    /\ \A r \in Handlers : r.dup => r.made = 0

\* the manual route generated the ticketId of a Booking that finalizePaidOrder
\* had created, and its write was rejected
C30_Witness ==
    \E r1, r2 \in Handlers :
        /\ r1.kind = "manual" /\ r1.pc = "done" /\ r1.dup
        /\ r2.pc = "done" /\ r2.path = "paid" /\ r2.made = 1
        /\ Len(bookings) = 1

\* ------------------------------------------- invocations on distinct orders

\* handlers r1 and r2 each ran finalizePaidOrder, past the idempotency check,
\* on an order of their own; they are the only invocations, both have
\* answered, no write failed, and the event had the seats for both orders
DistinctOrders(r1, r2) ==
    /\ TwoHandlers(r1, r2)
    /\ r1.pc = "done" /\ r2.pc = "done"
    /\ Invoked(r1) /\ Invoked(r2)
    /\ r1.ord # r2.ord
    /\ NumberOf({r \in Handlers : Invoked(r)}) = 2
    /\ Quiescent
    /\ NoFault
    /\ orders[r1.ord].quantity + orders[r2.ord].quantity <= event.totalSeats

\* C31: when the event has the seats for two distinct paid orders together,
\* then however their two finalizePaidOrder invocations interleave (no write
\* failing), both return READY, both orders end PAID, and bookedSeats ends at
\* its initial value, 0, plus the sum of the two quantities.
C31_DistinctOrdersCommute ==
    \A r1, r2 \in Handlers :
        DistinctOrders(r1, r2)
            => /\ r1.fin.status = "READY" /\ r2.fin.status = "READY"
               /\ orders[r1.ord].status = "PAID" /\ orders[r2.ord].status = "PAID"
               /\ event.bookedSeats =
                    orders[r1.ord].quantity + orders[r2.ord].quantity

\* the two orders together take every seat of the event
C31_Witness ==
    \E r1, r2 \in Handlers :
        /\ DistinctOrders(r1, r2)
        /\ orders[r1.ord].quantity + orders[r2.ord].quantity = event.totalSeats

\* C32: in every reachable state the resolution fields of an order agree:
\* its ticketId is set if and only if its bookingId is set, and if and only if
\* its status is PAID.
C32_ResolutionFieldsAgree ==
    \A o \in OrderIds :
        /\ (orders[o].ticketId # Null) <=> (orders[o].bookingId # Null)
        /\ (orders[o].ticketId # Null) <=> (orders[o].status = "PAID")

\* the seats of the orders in S whose status is PAID
RECURSIVE PaidSeats(_)
PaidSeats(S) ==
    IF S = {} THEN 0
    ELSE LET o == CHOOSE x \in S : TRUE
         IN (IF orders[o].status = "PAID" THEN orders[o].quantity ELSE 0)
                + PaidSeats(S \ {o})

RolledBack(r) == r.pc = "saveRollback" \/ (r.pc = "done" /\ Faulted(r))

\* C34: once an invocation has decremented bookedSeats in its rollback, no
\* Booking that the invocation inserted is in the collection; so after a
\* Booking write that succeeded and an order save that failed, the released
\* seats are not still those of a Booking.
C34_RollbackLeavesNoBooking ==
    \A r \in Handlers :
        RolledBack(r)
            => /\ r.made = 0
               /\ \A i \in 1..Len(bookings) :
                    r.booking = Null \/ bookings[i].id # r.booking

\* C35: a manual booking request that has answered has either left
\* bookedSeats as it was and inserted no Booking, or raised bookedSeats and
\* inserted one Booking with that many seats: when the Booking write failed
\* after the increment, bookedSeats has not stayed incremented.
C35_ManualIncrementMatched ==
    \A r \in Handlers :
        (r.kind = "manual" /\ r.pc = "done")
            => \/ r.delta = 0 /\ r.made = 0
               \/ /\ r.made = 1
                  /\ \E i \in 1..Len(bookings) :
                        /\ bookings[i].stripeSessionId = Null
                        /\ bookings[i].ticketId = r.resp.ticketId
                        /\ bookings[i].seats = r.delta

\* ------------------------------------------------- concurrent bookSeats calls

\* POST /api/events/:id/book on its own
NextBookSeats ==
    \/ \E n \in 0..MaxSeats, known \in BOOLEAN : BookSeats(Seats(n), known)
    \/ \E r \in BagToSet(handlers) : BookSeatsSave(r)

SpecBookSeats == Init /\ [][NextBookSeats]_vars

\* the seats of the bookSeats calls in S, each counted as often as it occurs
RECURSIVE SeatsAsked(_)
SeatsAsked(S) ==
    IF S = {} THEN 0
    ELSE LET r == CHOOSE x \in S : TRUE
         IN r.req.quantity * CopiesIn(r, handlers) + SeatsAsked(S \ {r})

\* the bookSeats calls that answered success
BookSeatsSucceeded == {r \in Handlers : r.kind = "bookSeats" /\ r.resp.status = "OK"}

\* C36: however concurrent bookSeats calls on the event interleave, the seats
\* of the calls that answered success sum to at most totalSeats, and once all
\* calls have answered bookedSeats is its initial value, 0, plus that sum.
C36_BookSeatsNoLostUpdate ==
    /\ SeatsAsked(BookSeatsSucceeded) <= event.totalSeats
    /\ Quiescent => event.bookedSeats = SeatsAsked(BookSeatsSucceeded)

\* ------------------------------ the admin's update beside seat reservations

\* the admin's change of an event beside the routes that reserve seats with
\* the atomic increment: finalizePaidOrder and the manual booking route
NextAdminManual ==
    \/ NextManual
    \/ \E t \in {Null} \cup {Seats(n) : n \in 1..MaxSeats}, known \in BOOLEAN :
            AdminUpdate(t, known)
    \/ \E r \in BagToSet(handlers) : AdminSave(r)

SpecAdminManual == Init /\ [][NextAdminManual]_vars

\* C37: once an update of the event by the admin has been saved, bookedSeats
\* is at most totalSeats, whatever reservation of finalizePaidOrder or of the
\* manual booking route ran between the update's read and its save.
C37_AdminUpdateKeepsCapacity ==
    (\E r \in Handlers : r.kind = "admin" /\ r.resp.status = "OK")
        => event.bookedSeats <= event.totalSeats

\* ------------------------------------------- triggers that keep arriving

\* a request that has been answered is over: its handler is gone
Forget(r) ==
    /\ Running(r)
    /\ r.pc = "done"
    /\ handlers' = handlers (-) SetToBag({r})
    /\ UNCHANGED <<event, orders, bookings>>

\* a trigger for order o arrives whose session the provider reports paid: the
\* status poll, or the checkout.session.completed webhook
TriggerPaid(o) == PollLookup(o) \/ WebhookCompleted(o, "paid")

\* the code between two awaits of a handler that a trigger started, every
\* store operation succeeding (generateTicketId may still repeat a ticketId,
\* which Booking.create rejects)
HandlerStep ==
    \E r \in BagToSet(handlers) :
        \/ PollRetrieve(r, "paid")
        \/ Reserve(r)
        \/ SaveFailed(r)
        \/ \E t \in GeneratedTickets : CreateBooking(r, t, FALSE)
        \/ SavePaid(r, FALSE)
        \/ Rollback(r)
        \/ SaveRollback(r)

\* no answered request is still around
NoneAnswered == \A r \in BagToSet(handlers) : r.pc # "done"

\* a trigger for order o starts
StartPaid(o) == NoneAnswered /\ TriggerPaid(o)

\* a handler runs on to its next await
Resume == NoneAnswered /\ HandlerStep

\* An answered request touches nothing and nothing reads it, so the order in
\* which it ends and the other handlers move makes no difference: it ends
\* before anything else happens.
NextLive ==
    \/ \E o \in OrderIds : StartPaid(o)
    \/ Resume
    \/ \E r \in BagToSet(handlers) : Forget(r)

\* Node resumes a handler whose awaited operation has completed, and an
\* answered request ends (weak fairness); triggers keep arriving for every
\* order (strong fairness: a trigger can start only while fewer than NumProcs
\* requests are in progress)
SpecLive ==
    /\ Init /\ [][NextLive]_vars
    /\ WF_vars(Resume)
    /\ WF_vars(\E r \in BagToSet(handlers) : Forget(r))
    /\ \A o \in OrderIds : SF_vars(StartPaid(o))

\* C38: when triggers with a paid session keep arriving for every order and
\* the store operations succeed, no order stays PENDING for ever: from some
\* point on every order is PAID or FAILED.
C38_PendingResolves ==
    <>[](\A o \in OrderIds : orders[o].status \in {"PAID", "FAILED"})

\* a poll has taken a PENDING order to PAID while another handler is at work
C38_Witness ==
    \E r1, r2 \in Handlers :
        /\ r1.kind = "poll" /\ r1.seen.status = "PENDING" /\ r1.pc = "done"
        /\ r1.path = "paid" /\ orders[r1.ord].status = "PAID"
        /\ r2.pc \in {"reserve", "createBooking"}

\* -------------------------------------------- orders that are never paid

\* the checkout requests beside the provider's session-expired events, for
\* the orders of Init and for those the requests create
NextAbandon ==
    \/ NextCheckout
    \/ \E o \in DOMAIN orders \cup {Null} : WebhookExpired(o)
    \/ \E r \in BagToSet(handlers) : SaveExpired(r)

SpecAbandon == Init /\ [][NextAbandon]_vars

\* C39: whatever checkout requests have run (rejected, answered with the
\* session's url, or failed at the provider) and whatever orders have expired,
\* no seat is booked and no Booking exists: every seat of the event is still
\* available, and no such handler has changed bookedSeats or made a Booking.
C39_PendingHoldsNoSeats ==
    /\ event.bookedSeats = 0
    /\ Available(event) = event.totalSeats
    /\ bookings = <<>>
    /\ \A r \in Handlers : r.delta = 0 /\ r.made = 0

\* a checkout whose session creation failed has left its order PENDING, and
\* another order has expired
C39_Witness ==
    \E r1, r2 \in Handlers :
        /\ r1.kind = "checkout" /\ r1.pc = "done" /\ r1.resp.status = "ERROR"
        /\ OrderCreated(r1)
        /\ \E o \in DOMAIN orders \ OrderIds : orders[o].status = "PENDING"
        /\ r2.kind = "expired" /\ r2.pc = "done" /\ r2.left.status = "EXPIRED"
====
